---- MODULE Spec2Model ----
(***************************************************************************)
(* A model of PCP/FFT.cpp: the bit-reversal cache (gFFTBitTable, InitFFT,  *)
(* FastReverseBits), the complex FFT, RealFFT, PowerSpectrum, WindowFunc   *)
(* and analysefrequencies.                                                 *)
(*                                                                         *)
(* Arrays are functions over 0..len-1, as in C.  A float is modelled by    *)
(* its class (NaN, -Inf, negative, zero, positive, +Inf, or the            *)
(* indeterminate content of memory that was never written); the            *)
(* arithmetic of the code is carried out on classes.  Where the class of   *)
(* a result depends on magnitudes the model does not keep (the sign of a   *)
(* sum of a positive and a negative number, the bins of a transform of a   *)
(* generic block), the result is taken from an oracle the caller of the    *)
(* action draws from a small set.  Zero and NaN propagate exactly.         *)
(***************************************************************************)
EXTENDS Integers, Sequences, FiniteSets, TLC

VARIABLES
    gFFTBitTable,   \* the global cache: NULL, or one row per width 1..MaxFastBits
    initCount,      \* how many times InitFFT has run (history)
    exited,         \* exit(1) has been called: the process is gone
    op,             \* the call that has just returned or died ("none" between calls)
    args,           \* its arguments
    res,            \* what it left behind: return value, buffers, footprint
    thr,            \* SpecConc: the threads' positions and locals
    race            \* SpecConc: what the unsynchronised first use has produced (history)

vars == <<gFFTBitTable, initCount, exited, op, args, res, thr, race>>

(***************************************************************************)
(* Bounds of the model.                                                    *)
(***************************************************************************)
\* FFT.cpp:34 sets MaxFastBits to 16 (131070 cached entries); the model keeps
\* the code's loops and scales the number of cached widths.
MaxFastBits == 4
\* Call_FFT, Call_RealFFT and Call_PowerSpectrum draw NumSamples from -2..MaxNumSamples
MaxNumSamples == 34
\* the longest sample buffer handed to analysefrequencies holds this many hops
\* more than the shortest window
MaxBlocks == 3
\* the caller's result buffer is this much longer than the longest window analysed
Slack == 2

(***************************************************************************)
(* Program constants.                                                      *)
(***************************************************************************)
MinWindowSize == 32
MaxWindowSize == 65536
MaxAlg == 3
MaxWindowFunc == 3

NULL == <<>>

(***************************************************************************)
(* Integer helpers: the C operators on non-negative ints.                  *)
(***************************************************************************)
RECURSIVE Pow2(_)
Pow2(n) == IF n <= 0 THEN 1 ELSE 2 * Pow2(n - 1)

\* a & b, for a, b >= 0 (also right for a = 0 and any b)
RECURSIVE BitAnd(_, _)
BitAnd(a, b) ==
    IF a = 0 \/ b = 0 THEN 0
    ELSE (a % 2) * (b % 2) + 2 * BitAnd(a \div 2, b \div 2)

\* a faulty IsPowerOfTwo, without the x & (x - 1) test of line 47
IsPowerOfTwo_NoMask(x) ==
    IF x < 2 THEN FALSE ELSE TRUE

IsPowerOfTwo(x) ==
    IF x < 2 THEN FALSE
    ELSE IF BitAnd(x, x - 1) # 0 THEN FALSE
    ELSE TRUE

\* -1 stands for the exit(1) of the PowerOfTwo < 2 branch
RECURSIVE NumberOfBitsLoop(_, _)
NumberOfBitsLoop(PowerOfTwo, i) ==
    IF BitAnd(PowerOfTwo, Pow2(i)) # 0 THEN i ELSE NumberOfBitsLoop(PowerOfTwo, i + 1)

NumberOfBitsNeeded(PowerOfTwo) ==
    IF PowerOfTwo < 2 THEN -1 ELSE NumberOfBitsLoop(PowerOfTwo, 0)

RECURSIVE ReverseBitsLoop(_, _, _, _)
ReverseBitsLoop(i, rev, index, NumBits) ==
    IF i < NumBits
    THEN ReverseBitsLoop(i + 1, (rev * 2) + (index % 2), index \div 2, NumBits)
    ELSE rev

ReverseBits(index, NumBits) == ReverseBitsLoop(0, 0, index, NumBits)

(***************************************************************************)
(* The cache.  Row b (gFFTBitTable[b - 1] in the code) is a sequence of    *)
(* len = 2^b ints; entry i of the code is element i + 1.                   *)
(***************************************************************************)
\* What a read of an int that was never written, or of memory that is not
\* the program's, is taken to return: no index of any buffer.
Garbage == -1

\* a faulty InitFFT whose rows are one entry short
RowLen_Short(b) == Pow2(b) - 1

\* len of InitFFT: 2 before the loop, doubled after each width
RowLen(b) == Pow2(b)

\* new int[len]: a row whose entries have not been written
NewRow(b) == [k \in 1..RowLen(b) |-> Garbage]

\* new int *[MaxFastBits]: no row pointer has been written (a row <<>>)
NewTable == [b \in 1..MaxFastBits |-> <<>>]

\* a faulty InitFFT that reverses one bit too few
InitFFT_ShortRow ==
    [b \in 1..MaxFastBits |-> [k \in 1..RowLen(b) |-> ReverseBits(k - 1, b - 1)]]

\* InitFFT run from its first line to its last with nothing in between
InitFFT ==
    [b \in 1..MaxFastBits |-> [k \in 1..RowLen(b) |-> ReverseBits(k - 1, b)]]

\* gFFTBitTable[NumBits - 1][i]: Garbage when the row or the entry is not there
TableEntry(table, i, NumBits) ==
    IF NumBits \in DOMAIN table /\ (i + 1) \in DOMAIN table[NumBits]
    THEN table[NumBits][i + 1]
    ELSE Garbage

FastReverseBits(table, i, NumBits) ==
    IF NumBits <= MaxFastBits
    THEN TableEntry(table, i, NumBits)
    ELSE ReverseBits(i, NumBits)

(***************************************************************************)
(* Floats, by class.                                                       *)
(***************************************************************************)
NaN == "NaN"
NegInf == "-Inf"
Neg == "Neg"
Zero == "Zero"
Pos == "Pos"
PosInf == "+Inf"
Uninit == "Uninit"      \* new float[n], never written

NonFinite == {NaN, NegInf, PosInf, Uninit}

\* x < 0.0 in C: false for NaN
FLt0(x) == x \in {Neg, NegInf}

FNegate(x) ==
    CASE x = Neg -> Pos
      [] x = Pos -> Neg
      [] x = NegInf -> PosInf
      [] x = PosInf -> NegInf
      [] OTHER -> x

\* a * b
FMul(a, b) ==
    IF a \in {NaN, Uninit} \/ b \in {NaN, Uninit} THEN NaN
    ELSE IF a = Zero \/ b = Zero
         THEN (IF a \in {NegInf, PosInf} \/ b \in {NegInf, PosInf} THEN NaN ELSE Zero)
    ELSE IF a \in {NegInf, PosInf} \/ b \in {NegInf, PosInf}
         THEN (IF FLt0(a) = FLt0(b) THEN PosInf ELSE NegInf)
    ELSE IF a = b THEN Pos ELSE Neg

\* a + b; tie is the class of the sum of a positive and a negative finite number
FAdd(a, b, tie) ==
    IF a \in {NaN, Uninit} \/ b \in {NaN, Uninit} THEN NaN
    ELSE IF a \in {NegInf, PosInf}
         THEN (IF b \in {NegInf, PosInf} /\ b # a THEN NaN ELSE a)
    ELSE IF b \in {NegInf, PosInf} THEN b
    ELSE IF a = Zero THEN b
    ELSE IF b = Zero THEN a
    ELSE IF a = b THEN a
    ELSE tie

FSub(a, b, tie) == FAdd(a, FNegate(b), tie)

\* a / n for an int n > 0
FDivPos(a) == IF a = Uninit THEN NaN ELSE a

\* sqrt(x), and pow(x, 1.0f / 3.0f): both NaN for a negative base
FRoot(x) ==
    CASE x \in {Zero, Pos, PosInf} -> x
      [] OTHER -> NaN

\* log10(x); fin is the class of the logarithm of a positive finite number
FLog10(x, fin) ==
    CASE x = Zero -> NegInf
      [] x = Pos -> fin
      [] x = PosInf -> PosInf
      [] OTHER -> NaN

(***************************************************************************)
(* The oracle: the classes the model cannot compute.                       *)
(***************************************************************************)
Oracles ==
    { [even |-> Pos, odd |-> Neg,  tie |-> Pos],
      [even |-> Neg, odd |-> Zero, tie |-> Neg],
      [even |-> Pos, odd |-> Pos,  tie |-> Zero] }

OracleAt(o, i) == IF i % 2 = 0 THEN o.even ELSE o.odd

\* The class of a combination, with generic non-zero weights, of numbers
\* whose classes are in S: NaN if one is not finite (NaN is absorbing, and
\* Inf - Inf is NaN), zero if all are zero, else the oracle's class v.
Mix(S, v) ==
    IF S \cap NonFinite # {} THEN NaN
    ELSE IF S \subseteq {Zero} THEN Zero
    ELSE v

Array(len, x) == [i \in 0..(len - 1) |-> x]

Range(f) == {f[i] : i \in DOMAIN f}

\* for (i = 0; i < NumSamples; i++) Out[rev[i]] = In[i];
\* moves holds the pairs <<rev[i], i>>; element j of Out ends as the last
\* pass i with rev[i] = j left it
Scatter(NumSamples, rev, In, Out) ==
    LET moves == {<<rev[i], i>> : i \in 0..(NumSamples - 1)}
    IN [j \in DOMAIN Out |->
          LET W == {m \in moves : m[1] = j}
          IN IF W = {} THEN Out[j]
             ELSE In[(CHOOSE m \in W : \A k \in W : k[2] <= m[2])[2]]]

(***************************************************************************)
(* FFT.  pImagIn is [null |-> BOOLEAN, a |-> array].  The result records   *)
(* whether exit(1) was reached, the cache after the call, the number of    *)
(* InitFFT runs, the output buffers and the output indices written.        *)
(***************************************************************************)
\* lines 145-199: the butterflies, and the division by NumSamples of the
\* inverse transform, which keeps the class.  Every output is a combination
\* of all of R0[0..NumSamples-1] and I0[0..NumSamples-1], the reordered input.
FFT_Butterflies(t, inits, wrote, NumSamples, R0, I0, o) ==
    LET S == {R0[i] : i \in 0..(NumSamples - 1)} \cup {I0[i] : i \in 0..(NumSamples - 1)}
    IN [fatal |-> FALSE, table |-> t, inits |-> inits,
        RealOut |-> [j \in DOMAIN R0 |->
                       IF j < NumSamples THEN Mix(S, OracleAt(o, j)) ELSE R0[j]],
        ImagOut |-> [j \in DOMAIN I0 |->
                       IF j < NumSamples THEN Mix(S, OracleAt(o, j + 1)) ELSE I0[j]],
        wrote |-> wrote]

\* lines 129-139, with the cache t in place: the simultaneous data copy and
\* bit-reversal ordering into the outputs
FFT_Reorder(t, inits, NumBits, NumSamples, RealIn, pImagIn, RealOut, ImagOut, o) ==
    IF NumBits < 0
    THEN [fatal |-> TRUE, table |-> t, inits |-> inits,
          RealOut |-> RealOut, ImagOut |-> ImagOut, wrote |-> {}]
    ELSE
      LET rev == [i \in 0..(NumSamples - 1) |-> FastReverseBits(t, i, NumBits)]
          ImagIn == [i \in 0..(NumSamples - 1) |->
                       IF pImagIn.null THEN Zero ELSE pImagIn.a[i]]
      IN FFT_Butterflies(t, inits, Range(rev), NumSamples,
                         Scatter(NumSamples, rev, RealIn, RealOut),
                         Scatter(NumSamples, rev, ImagIn, ImagOut), o)

FFT(table, NumSamples, InverseTransform, RealIn, pImagIn, RealOut, ImagOut, o) ==
    IF ~IsPowerOfTwo(NumSamples)
    THEN [fatal |-> TRUE, table |-> table, inits |-> 0,
          RealOut |-> RealOut, ImagOut |-> ImagOut, wrote |-> {}]
    ELSE FFT_Reorder(IF table = NULL THEN InitFFT ELSE table,
                     IF table = NULL THEN 1 ELSE 0,
                     NumberOfBitsNeeded(NumSamples),
                     NumSamples, RealIn, pImagIn, RealOut, ImagOut, o)

\* a / b in C, for b > 0: the quotient is truncated towards zero
CDiv(a, b) == IF a >= 0 THEN a \div b ELSE -((-a) \div b)

(***************************************************************************)
(* RealFFT.  new float[Half] with Half < 0 throws, and nothing catches it: *)
(* the process ends as it does on exit(1).                                 *)
(***************************************************************************)
\* lines 234-264, f being what FFT(Half, ...) of line 232 has left
RealFFT_Recombine(f, Half, o) ==
    IF f.fatal THEN f
    ELSE
      LET \* the pairs (i, i3) the recombination loop rewrites
          lo == 1..(CDiv(Half, 2) - 1)
          hi == {Half - i : i \in lo}
      IN [fatal |-> FALSE, table |-> f.table, inits |-> f.inits,
          RealOut |-> [j \in DOMAIN f.RealOut |->
                         IF j = 0 THEN FAdd(f.RealOut[0], f.ImagOut[0], o.tie)
                         ELSE IF j \in lo \cup hi
                         THEN Mix({f.RealOut[j], f.RealOut[Half - j],
                                   f.ImagOut[j], f.ImagOut[Half - j]}, OracleAt(o, j))
                         ELSE f.RealOut[j]],
          ImagOut |-> [j \in DOMAIN f.ImagOut |->
                         IF j = 0 THEN FSub(f.RealOut[0], f.ImagOut[0], o.tie)
                         ELSE IF j \in lo \cup hi
                         THEN Mix({f.RealOut[j], f.RealOut[Half - j],
                                   f.ImagOut[j], f.ImagOut[Half - j]}, OracleAt(o, j + 1))
                         ELSE f.ImagOut[j]],
          wrote |-> f.wrote \cup lo \cup hi \cup {0}]

RealFFT(table, NumSamples, RealIn, RealOut, ImagOut, o) ==
    IF CDiv(NumSamples, 2) < 0
    THEN [fatal |-> TRUE, table |-> table, inits |-> 0,
          RealOut |-> RealOut, ImagOut |-> ImagOut, wrote |-> {}]
    ELSE RealFFT_Recombine(
           FFT(table, CDiv(NumSamples, 2), FALSE,
               [i \in 0..(CDiv(NumSamples, 2) - 1) |-> RealIn[2 * i]],
               [null |-> FALSE,
                a |-> [i \in 0..(CDiv(NumSamples, 2) - 1) |-> RealIn[2 * i + 1]]],
               RealOut, ImagOut, o),
           CDiv(NumSamples, 2), o)

(***************************************************************************)
(* PowerSpectrum.  The four scratch arrays are its own; Out is the         *)
(* caller's.  wrote is the set of indices of Out the call assigns.         *)
(***************************************************************************)
\* a faulty PowerSpectrum, without the assignment of line 341
PSWrites_NoMid(Half) ==
    LET lo == 1..(CDiv(Half, 2) - 1)
    IN lo \cup {Half - i : i \in lo} \cup {0}

\* lines 312-341: Out[i] and Out[i3] in the loop, then Out[0] and Out[Half / 2]
PSWrites(Half) ==
    LET lo == 1..(CDiv(Half, 2) - 1)
    IN lo \cup {Half - i : i \in lo} \cup {0, CDiv(Half, 2)}

\* lines 301-341, f being what FFT(Half, ...) of line 299 has left
PowerSpectrum_Out(f, Half, Out, o) ==
    IF f.fatal
    THEN [fatal |-> TRUE, table |-> f.table, inits |-> f.inits, Out |-> Out, wrote |-> {}]
    ELSE
      LET mid == CDiv(Half, 2)
          sq(x) == FMul(x, x)
          \* rt * rt + it * it of lines 321-329
          pair(j) ==
              FAdd(sq(Mix({f.RealOut[j], f.RealOut[Half - j],
                           f.ImagOut[j], f.ImagOut[Half - j]}, OracleAt(o, j))),
                   sq(Mix({f.RealOut[j], f.RealOut[Half - j],
                           f.ImagOut[j], f.ImagOut[Half - j]}, OracleAt(o, j + 1))),
                   o.tie)
          \* lines 335-337
          first == FAdd(sq(FAdd(f.RealOut[0], f.ImagOut[0], o.tie)),
                        sq(FSub(f.RealOut[0], f.ImagOut[0], o.tie)), o.tie)
          \* lines 339-341
          middle == FAdd(sq(f.RealOut[mid]), sq(f.ImagOut[mid]), o.tie)
      IN [fatal |-> FALSE, table |-> f.table, inits |-> f.inits,
          Out |-> [j \in DOMAIN Out |->
                     IF j \notin PSWrites(Half) THEN Out[j]
                     ELSE IF j = mid THEN middle
                     ELSE IF j = 0 THEN first
                     ELSE pair(j)],
          wrote |-> PSWrites(Half)]

PowerSpectrum(table, NumSamples, In, Out, o) ==
    IF CDiv(NumSamples, 2) < 0
    THEN [fatal |-> TRUE, table |-> table, inits |-> 0, Out |-> Out, wrote |-> {}]
    ELSE PowerSpectrum_Out(
           FFT(table, CDiv(NumSamples, 2), FALSE,
               [i \in 0..(CDiv(NumSamples, 2) - 1) |-> In[2 * i]],
               [null |-> FALSE,
                a |-> [i \in 0..(CDiv(NumSamples, 2) - 1) |-> In[2 * i + 1]]],
               Array(CDiv(NumSamples, 2), Uninit), Array(CDiv(NumSamples, 2), Uninit), o),
           CDiv(NumSamples, 2), Out, o)

(***************************************************************************)
(* WindowFunc: the class of the weight each sample is multiplied by.       *)
(* Bartlett: i / (N/2) is 0 at i = 0; 1 - i / (N/2) is never 0.            *)
(* Hamming: 0.54 - 0.46 cos(..) >= 0.08.                                   *)
(* Hanning: 0.50 - 0.50 cos(2 pi i / (N-1)) is 0 at i = 0 and i = N - 1.   *)
(***************************************************************************)
WindowFunc(whichFunction, NumSamples, in) ==
    LET h == CDiv(NumSamples, 2)
    IN [i \in DOMAIN in |->
          IF whichFunction = 1 /\ i < 2 * h
          THEN FMul(in[i], IF i = 0 THEN Zero ELSE Pos)
          ELSE IF whichFunction = 2 /\ i < NumSamples
          THEN FMul(in[i], Pos)
          ELSE IF whichFunction = 3 /\ i < NumSamples
          THEN FMul(in[i], IF i = 0 \/ i = NumSamples - 1 THEN Zero ELSE Pos)
          ELSE in[i]]

(***************************************************************************)
(* analysefrequencies.                                                     *)
(***************************************************************************)
\* a faulty validation that lets windows of 16..31 samples through
ValidParams_Wide(alg, windowFunc, windowSize) ==
    /\ windowSize >= MinWindowSize \div 2 /\ windowSize <= MaxWindowSize
    /\ alg >= 0 /\ alg <= MaxAlg
    /\ windowFunc >= 0 /\ windowFunc <= MaxWindowFunc

\* lines 429-430
ValidParams(alg, windowFunc, windowSize) ==
    /\ windowSize >= MinWindowSize /\ windowSize <= MaxWindowSize
    /\ alg >= 0 /\ alg <= MaxAlg
    /\ windowFunc >= 0 /\ windowFunc <= MaxWindowFunc

\* The loop's state is s = [start, windows, acc (mProcessed), out, out2,
\* table, inits, fatal, reads (the indices of mData read so far)].

\* the indices of mData lines 457-458 read
BlockReads(s, mWindowSize) ==
    s.reads \cup {s.start + i : i \in 0..(mWindowSize - 1)}

\* a transform of the block reached exit(1); n counts the InitFFT runs of the block
BlockDied(s, mWindowSize, t, n) ==
    [s EXCEPT !.fatal = TRUE, !.table = t, !.inits = s.inits + n,
              !.reads = BlockReads(s, mWindowSize)]

\* for (i = 0; i < half; i++) mProcessed[i] += out[i]; start += hopsize; windows++;
\* with out, out2 as the block's transform left them
BlockDone(s, mWindowSize, out, out2, t, n, o) ==
    [s EXCEPT !.start = s.start + CDiv(mWindowSize, 2),
              !.windows = s.windows + 1,
              !.acc = [i \in DOMAIN s.acc |->
                         IF i < CDiv(mWindowSize, 2)
                         THEN FAdd(s.acc[i], out[i], o.tie) ELSE s.acc[i]],
              !.out = out, !.out2 = out2,
              !.table = t, !.inits = s.inits + n,
              !.reads = BlockReads(s, mWindowSize)]

\* case 0, lines 463-468: ps is what PowerSpectrum(mWindowSize, in, out) left
Block_Spectrum(s, mWindowSize, ps, o) ==
    IF ps.fatal THEN BlockDied(s, mWindowSize, ps.table, ps.inits)
    ELSE BlockDone(s, mWindowSize, ps.Out, s.out2, ps.table, ps.inits, o)

\* lines 490-495 and 505-510: f2 is what the second FFT left, n1 the InitFFT
\* runs of the first
Block_Second(s, mWindowSize, n1, f2, o) ==
    IF f2.fatal THEN BlockDied(s, mWindowSize, f2.table, n1 + f2.inits)
    ELSE BlockDone(s, mWindowSize, f2.RealOut, f2.ImagOut, f2.table, n1 + f2.inits, o)

\* cases 1-3 and 4, lines 471-510: f1 is what the first FFT left; in[] becomes
\* the root (the logarithm, for the cepstrum) of the power of every bin
Block_Power(s, alg, mWindowSize, f1, o) ==
    IF f1.fatal THEN BlockDied(s, mWindowSize, f1.table, f1.inits)
    ELSE Block_Second(s, mWindowSize, f1.inits,
           FFT(f1.table, mWindowSize, alg = 4,
               [i \in 0..(mWindowSize - 1) |->
                  IF alg = 4
                  THEN FLog10(FAdd(FMul(f1.RealOut[i], f1.RealOut[i]),
                                   FMul(f1.ImagOut[i], f1.ImagOut[i]), o.tie), o.tie)
                  ELSE FRoot(FAdd(FMul(f1.RealOut[i], f1.RealOut[i]),
                                  FMul(f1.ImagOut[i], f1.ImagOut[i]), o.tie))],
               [null |-> TRUE, a |-> <<>>], f1.RealOut, f1.ImagOut, o),
           o)

\* lines 460-513, in being the windowed block
Block_Switch(s, alg, mWindowSize, in, o) ==
    IF alg = 0
    THEN Block_Spectrum(s, mWindowSize,
                        PowerSpectrum(s.table, mWindowSize, in, s.out, o), o)
    ELSE IF alg \in 1..4
    THEN Block_Power(s, alg, mWindowSize,
                     FFT(s.table, mWindowSize, FALSE, in, [null |-> TRUE, a |-> <<>>],
                         s.out, s.out2, o), o)
    ELSE [s EXCEPT !.start = s.start + CDiv(mWindowSize, 2),
                   !.windows = s.windows + 1,
                   !.reads = BlockReads(s, mWindowSize)]

\* One pass of the while loop of lines 456-519
Block(s, alg, windowFunc, mWindowSize, mData, o) ==
    Block_Switch(s, alg, mWindowSize,
                 WindowFunc(windowFunc, mWindowSize,
                            [i \in 0..(mWindowSize - 1) |-> mData[s.start + i]]), o)

RECURSIVE Blocks(_, _, _, _, _, _, _)
Blocks(s, alg, windowFunc, mWindowSize, mData, mDataLen, o) ==
    IF ~s.fatal /\ s.start + mWindowSize <= mDataLen
    THEN Blocks(Block(s, alg, windowFunc, mWindowSize, mData, o),
                alg, windowFunc, mWindowSize, mData, mDataLen, o)
    ELSE s

\* if (mProcessed[i] < 0.0) mProcessed[i] = float(0.0);
Clip(x) == IF FLt0(x) THEN Zero ELSE x

\* The indices of out[] the peak pruning of lines 553-557 reads
PruneReads(half) ==
    {CDiv(i, 2) : i \in 0..(half - 1)}
        \cup {CDiv(i, 2) + 1 : i \in {k \in 0..(half - 1) : k % 2 # 0}}

\* lines 521-574: acc is mProcessed after the loop; the result is
\* mProcessed[0..half-1] as returned
Normalize(alg, half, acc, o) ==
    LET mean == [i \in 0..(half - 1) |-> FDivPos(acc[i])]
    IN
    IF alg = 0
    THEN [i \in 0..(half - 1) |-> FMul(Pos, FLog10(FDivPos(FDivPos(acc[i])), o.tie))]
    ELSE IF alg = 3
    THEN LET out == [i \in 0..(half - 1) |-> Clip(mean[i])]
             pruned == [i \in 0..(half - 1) |->
                          IF i % 2 = 0
                          THEN FSub(out[i], out[CDiv(i, 2)], o.tie)
                          ELSE FSub(out[i],
                                    FDivPos(FAdd(out[CDiv(i, 2)], out[CDiv(i, 2) + 1], o.tie)),
                                    o.tie)]
         IN [i \in 0..(half - 1) |-> Clip(pruned[i])]
    ELSE mean

\* lines 521-581, s being the state the while loop ended in
AfterBlocks(s, alg, mWindowSize, mProcessed, o) ==
    IF s.fatal
    THEN [ret |-> -1, fatal |-> TRUE, mProcessed |-> s.acc,
          written |-> 0..(mWindowSize - 1),
          windows |-> s.windows, reads |-> s.reads, outReads |-> {},
          table |-> s.table, inits |-> s.inits]
    ELSE [ret |-> CDiv(mWindowSize, 2), fatal |-> FALSE,
          mProcessed |-> [i \in DOMAIN mProcessed |->
                            IF i < CDiv(mWindowSize, 2)
                            THEN Normalize(alg, CDiv(mWindowSize, 2), s.acc, o)[i]
                            ELSE s.acc[i]],
          written |-> 0..(mWindowSize - 1),
          windows |-> s.windows, reads |-> s.reads,
          outReads |-> IF alg = 3 THEN PruneReads(CDiv(mWindowSize, 2)) ELSE {},
          table |-> s.table, inits |-> s.inits]

analysefrequencies(table, alg, windowFunc, windowSize, mData, mDataLen, mProcessed, o) ==
    IF ~ValidParams(alg, windowFunc, windowSize) \/ mDataLen < windowSize
    THEN [ret |-> 0, fatal |-> FALSE, mProcessed |-> mProcessed, written |-> {},
          windows |-> 0, reads |-> {}, outReads |-> {},
          table |-> table, inits |-> 0]
    ELSE AfterBlocks(
           Blocks([start |-> 0, windows |-> 0,
                   \* for (i = 0; i < mWindowSize; i++) mProcessed[i] = float(0.0);
                   acc |-> [i \in DOMAIN mProcessed |->
                              IF i < windowSize THEN Zero ELSE mProcessed[i]],
                   out |-> Array(windowSize, Uninit), out2 |-> Array(windowSize, Uninit),
                   table |-> table, inits |-> 0, fatal |-> FALSE, reads |-> {}],
                  alg, windowFunc, windowSize, mData, mDataLen, o),
           alg, windowSize, mProcessed, o)

(***************************************************************************)
(* The inputs the callers draw.                                            *)
(***************************************************************************)
Patterns == {"zeros", "mixed", "nan"}

Samples(p, len) ==
    [i \in 0..(len - 1) |->
        CASE p = "zeros" -> Zero
          [] p = "mixed" -> (IF i % 2 = 0 THEN Pos ELSE Neg)
          [] OTHER -> (IF i = 0 THEN NaN ELSE Pos)]

ArrLen(n) == IF n < 0 THEN 0 ELSE n

(***************************************************************************)
(* The sequential program: one call at a time.                             *)
(***************************************************************************)
Idle == op = "none" /\ ~exited

Finish(name, a, r, fatal, table, inits) ==
    /\ op' = name
    /\ args' = a
    /\ res' = r
    /\ exited' = fatal
    /\ gFFTBitTable' = table
    /\ initCount' = initCount + inits
    /\ UNCHANGED <<thr, race>>

Call_FFT ==
    /\ Idle
    /\ \E NumSamples \in (-2)..MaxNumSamples, inv \in BOOLEAN,
          p \in Patterns, imagNull \in BOOLEAN, o \in Oracles :
         LET RealIn == Samples(p, ArrLen(NumSamples))
             pImagIn == [null |-> imagNull, a |-> Array(ArrLen(NumSamples), Zero)]
             buf == Array(ArrLen(NumSamples), Uninit)
         IN \E r \in {FFT(gFFTBitTable, NumSamples, inv, RealIn, pImagIn, buf, buf, o)} :
            Finish("FFT",
                   [NumSamples |-> NumSamples, InverseTransform |-> inv,
                    RealIn |-> RealIn, ImagInNull |-> imagNull],
                   [fatal |-> r.fatal, RealOut |-> r.RealOut, ImagOut |-> r.ImagOut,
                    wrote |-> r.wrote, inits |-> r.inits],
                   r.fatal, r.table, r.inits)

Call_RealFFT ==
    /\ Idle
    /\ \E NumSamples \in (-2)..MaxNumSamples, p \in Patterns, o \in Oracles :
         LET RealIn == Samples(p, ArrLen(NumSamples))
             buf == Array(ArrLen(NumSamples), Uninit)
         IN \E r \in {RealFFT(gFFTBitTable, NumSamples, RealIn, buf, buf, o)} :
            Finish("RealFFT",
                   [NumSamples |-> NumSamples, RealIn |-> RealIn],
                   [fatal |-> r.fatal, RealOut |-> r.RealOut, ImagOut |-> r.ImagOut,
                    wrote |-> r.wrote, inits |-> r.inits],
                   r.fatal, r.table, r.inits)

\* Out is given room for NumSamples / 2 + 1 values
Call_PowerSpectrum ==
    /\ Idle
    /\ \E NumSamples \in (-2)..MaxNumSamples, p \in Patterns, o \in Oracles :
         LET In == Samples(p, ArrLen(NumSamples))
             Out == Array(ArrLen(CDiv(NumSamples, 2)) + 1, Uninit)
         IN \E r \in {PowerSpectrum(gFFTBitTable, NumSamples, In, Out, o)} :
            Finish("PowerSpectrum",
                   [NumSamples |-> NumSamples, In |-> In],
                   [fatal |-> r.fatal, Out |-> r.Out, wrote |-> r.wrote, inits |-> r.inits],
                   r.fatal, r.table, r.inits)

WindowSizes ==
    { MinWindowSize \div 2, MinWindowSize - 1, MinWindowSize,
      MinWindowSize + MinWindowSize \div 2, 2 * MinWindowSize,
      MaxWindowSize, MaxWindowSize + 1 }

DataLens ==
    {MinWindowSize - 1} \cup
    { MinWindowSize + k * (MinWindowSize \div 2) + r :
        k \in 0..(MaxBlocks - 1), r \in {0, MinWindowSize \div 2 - 1} }

\* the caller's result buffer, longer than any window that is analysed
BufLen == 2 * MinWindowSize + Slack

Call_analysefrequencies ==
    /\ Idle
    /\ \E alg \in (-1)..(MaxAlg + 1), windowFunc \in (-1)..(MaxWindowFunc + 1),
          windowSize \in WindowSizes, mDataLen \in DataLens,
          p \in Patterns, o \in Oracles :
         LET mData == Samples(p, mDataLen)
             buf == Array(BufLen, Uninit)
         IN \E r \in {analysefrequencies(gFFTBitTable, alg, windowFunc, windowSize,
                                     mData, mDataLen, buf, o)} :
            Finish("analysefrequencies",
                   [alg |-> alg, windowFunc |-> windowFunc, windowSize |-> windowSize,
                    mData |-> mData, mDataLen |-> mDataLen, mProcessed |-> buf],
                   [ret |-> r.ret, fatal |-> r.fatal, mProcessed |-> r.mProcessed,
                    written |-> r.written, windows |-> r.windows, reads |-> r.reads,
                    outReads |-> r.outReads, inits |-> r.inits],
                   r.fatal, r.table, r.inits)

\* The call has returned and the caller goes on: its buffers and the
\* call's arguments are the caller's to drop.
CallerContinues ==
    /\ op # "none"
    /\ ~exited
    /\ op' = "none"
    /\ args' = <<>>
    /\ res' = <<>>
    /\ UNCHANGED <<gFFTBitTable, initCount, exited, thr, race>>

Init ==
    /\ gFFTBitTable = NULL
    /\ initCount = 0
    /\ exited = FALSE
    /\ op = "none"
    /\ args = <<>>
    /\ res = <<>>
    /\ thr = <<>>
    /\ race = <<>>

Next ==
    \/ Call_FFT
    \/ Call_RealFFT
    \/ Call_PowerSpectrum
    \/ Call_analysefrequencies
    \/ CallerContinues

Spec == Init /\ [][Next]_vars

(***************************************************************************)
(* Two threads, each making its first FFT call, with nothing between them  *)
(* but the global gFFTBitTable.  A step is one statement of lines 118-139  *)
(* and 82-92; gFFTBitTable is read anew by every statement that names it.  *)
(* A load or store through a row pointer or of an entry that was never     *)
(* written is undefined: the process dies there, or goes on.               *)
(***************************************************************************)
Threads == {1, 2}

ConcSizes == {2, 4}

\* some other thread is between lines 82 and 93
OthersInInitFFT(t) == \E u \in Threads \ {t} : thr[u].pc \in {"row", "fill"}

\* line 118
T_Call(t) ==
    /\ ~exited
    /\ thr[t].pc = "idle"
    /\ \E NumSamples \in ConcSizes :
         IF ~IsPowerOfTwo(NumSamples)
         THEN /\ exited' = TRUE
              /\ thr' = [thr EXCEPT ![t].pc = "crashed"]
         ELSE /\ thr' = [thr EXCEPT ![t].pc = "test", ![t].NumSamples = NumSamples]
              /\ UNCHANGED exited
    /\ UNCHANGED <<gFFTBitTable, initCount, op, args, res, race>>

\* line 123, and line 129 when the table is there
T_Test(t) ==
    /\ ~exited
    /\ thr[t].pc = "test"
    /\ IF gFFTBitTable = NULL
       THEN thr' = [thr EXCEPT ![t].pc = "alloc", ![t].tested = "null"]
       ELSE thr' = [thr EXCEPT ![t].pc = "scatter", ![t].tested = "built",
                               ![t].NumBits = NumberOfBitsNeeded(thr[t].NumSamples),
                               ![t].i = 0]
    /\ UNCHANGED <<gFFTBitTable, initCount, exited, op, args, res, race>>

\* line 82
T_Alloc(t) ==
    /\ ~exited
    /\ thr[t].pc = "alloc"
    /\ gFFTBitTable' = NewTable
    /\ initCount' = initCount + 1
    /\ thr' = [thr EXCEPT ![t].pc = "row", ![t].b = 1]
    /\ UNCHANGED <<exited, op, args, res, race>>

\* lines 85 and 87; line 129 once the loop is over
T_Row(t) ==
    /\ ~exited
    /\ thr[t].pc = "row"
    /\ IF thr[t].b <= MaxFastBits
       THEN /\ gFFTBitTable' = [gFFTBitTable EXCEPT ![thr[t].b] = NewRow(thr[t].b)]
            /\ thr' = [thr EXCEPT ![t].pc = "fill", ![t].i = 0]
       ELSE /\ thr' = [thr EXCEPT ![t].pc = "scatter",
                                  ![t].NumBits = NumberOfBitsNeeded(thr[t].NumSamples),
                                  ![t].i = 0]
            /\ UNCHANGED gFFTBitTable
    /\ UNCHANGED <<initCount, exited, op, args, res, race>>

\* lines 88-89; line 91 once the row is full
T_Fill(t) ==
    /\ ~exited
    /\ thr[t].pc = "fill"
    /\ LET b == thr[t].b
           i == thr[t].i
       IN
       IF i < RowLen(b)
       THEN IF (i + 1) \in DOMAIN gFFTBitTable[b]
            THEN /\ gFFTBitTable' = [gFFTBitTable EXCEPT ![b][i + 1] = ReverseBits(i, b)]
                 /\ thr' = [thr EXCEPT ![t].i = i + 1]
                 /\ UNCHANGED <<exited, race>>
            ELSE \* the row pointer is another thread's new, unwritten one
                 /\ race' = [race EXCEPT !.wild = TRUE,
                                         !.solo = race.solo \/ ~OthersInInitFFT(t)]
                 /\ \E dies \in BOOLEAN :
                      /\ exited' = dies
                      /\ thr' = [thr EXCEPT ![t].i = i + 1,
                                            ![t].pc = IF dies THEN "crashed" ELSE "fill"]
                 /\ UNCHANGED gFFTBitTable
       ELSE /\ thr' = [thr EXCEPT ![t].pc = "row", ![t].b = b + 1]
            /\ UNCHANGED <<gFFTBitTable, exited, race>>
    /\ UNCHANGED <<initCount, op, args, res>>

\* lines 135-136: j = FastReverseBits(i, NumBits)
T_Scatter(t) ==
    /\ ~exited
    /\ thr[t].pc = "scatter"
    /\ LET i == thr[t].i
           NumBits == thr[t].NumBits
           row == gFFTBitTable[NumBits]
           bad == IF NumBits > MaxFastBits THEN "none"
                  ELSE IF (i + 1) \notin DOMAIN row THEN "unallocated"
                  ELSE IF FastReverseBits(gFFTBitTable, i, NumBits) = Garbage THEN "unfilled"
                  ELSE "none"
       IN
       IF i < thr[t].NumSamples
       THEN IF bad = "none"
            THEN /\ thr' = [thr EXCEPT ![t].i = i + 1]
                 /\ UNCHANGED <<exited, race>>
            ELSE /\ race' = [race EXCEPT !.solo = race.solo \/ ~OthersInInitFFT(t)]
                 /\ \E dies \in BOOLEAN :
                      /\ exited' = dies
                      /\ thr' = [thr EXCEPT ![t].i = i + 1, ![t].bad = bad,
                                            ![t].pc = IF dies THEN "crashed" ELSE "scatter"]
       ELSE /\ thr' = [thr EXCEPT ![t].pc = "done"]
            /\ UNCHANGED <<exited, race>>
    /\ UNCHANGED <<gFFTBitTable, initCount, op, args, res>>

InitConc ==
    /\ gFFTBitTable = NULL
    /\ initCount = 0
    /\ exited = FALSE
    /\ op = "none"
    /\ args = <<>>
    /\ res = <<>>
    /\ thr = [t \in Threads |->
                [pc |-> "idle", NumSamples |-> 0, NumBits |-> 0, b |-> 0, i |-> 0,
                 tested |-> "no", bad |-> "none"]]
    /\ race = [wild |-> FALSE, solo |-> FALSE]

NextConc ==
    \E t \in Threads :
        \/ T_Call(t)
        \/ T_Test(t)
        \/ T_Alloc(t)
        \/ T_Row(t)
        \/ T_Fill(t)
        \/ T_Scatter(t)

SpecConc == InitConc /\ [][NextConc]_vars

\* C8: the lazy build is unsafe when two threads make their first FFT call
\* at the same time: InitFFT runs twice when both threads test gFFTBitTable
\* before either assigns it, and a thread that finds gFFTBitTable non-null
\* reads an entry the other thread's InitFFT has not yet allocated or filled
\* (C8_Witness).  The hazard is that of the overlap alone: every load or
\* store of an unwritten row or entry happens while another thread is inside
\* InitFFT, InitFFT runs twice only if both threads saw NULL, and once every
\* thread is through the table is complete.
C8_HazardOnlyUnderOverlap ==
    /\ ~race.solo
    /\ initCount <= Cardinality({t \in Threads : thr[t].tested = "null"})
    /\ (\A t \in Threads : thr[t].pc = "done") => gFFTBitTable = InitFFT

C8_Witness ==
    \E t \in Threads :
        /\ thr[t].tested = "built"
        /\ thr[t].bad \in {"unallocated", "unfilled"}
        /\ OthersInInitFFT(t)


(***************************************************************************)
(* The claims about the sequential program.                                *)
(***************************************************************************)
Analysed == op = "analysefrequencies"

\* the validation of the claims, in their own words
Validated ==
    /\ 32 <= args.windowSize /\ args.windowSize <= 65536
    /\ args.alg \in 0..3
    /\ args.windowFunc \in 0..3
    /\ args.mDataLen >= args.windowSize

IsTwoToTheK(n) == \E k \in 1..30 : n = 2 ^ k

\* C1: analysefrequencies returns 0, and the process lives on, whenever
\* windowSize < 32, windowSize > 65536, alg is outside 0..3, windowFunc is
\* outside 0..3 or mDataLen < windowSize, whatever the other arguments are.
C1_InvalidReturnsZero ==
    (Analysed /\ ~Validated) => (res.ret = 0 /\ ~res.fatal /\ ~exited)

C1_Witness ==
    /\ Analysed
    /\ args.windowSize = 16 /\ args.alg \in 0..3 /\ args.windowFunc \in 0..3
    /\ args.mDataLen >= args.windowSize
    /\ res.ret = 0 /\ ~exited

\* C2: every call of analysefrequencies whose parameters pass the validation
\* runs to completion and returns windowSize/2 with outCurve[0..windowSize/2-1]
\* filled; none ends in the exit(1) of the FFT.
C2_ValidatedCompletes ==
    (Analysed /\ Validated) =>
        /\ ~res.fatal /\ ~exited
        /\ res.ret = args.windowSize \div 2
        /\ \A i \in 0..(res.ret - 1) : i \in res.written /\ res.mProcessed[i] # Uninit

\* C3: FFT(NumSamples, ...) ends the process, before it writes any output
\* element, exactly when NumSamples is not 2^k for a k >= 1; otherwise it
\* goes on to the transform and writes RealOut[0..NumSamples-1].
C3_FatalIffNotPowerOfTwo ==
    op = "FFT" =>
        /\ res.fatal <=> ~IsTwoToTheK(args.NumSamples)
        /\ res.fatal => /\ exited
                        /\ res.wrote = {}
                        /\ \A i \in DOMAIN res.RealOut :
                              res.RealOut[i] = Uninit /\ res.ImagOut[i] = Uninit
        /\ ~res.fatal => /\ ~exited
                         /\ res.wrote = 0..(args.NumSamples - 1)
                         /\ \A i \in res.wrote : res.RealOut[i] # Uninit

C3_Witness ==
    /\ op = "FFT" /\ args.NumSamples = 24
    /\ res.fatal /\ exited /\ res.wrote = {}

\* C4 as claimed: for every power-of-two NumSamples >= 4, PowerSpectrum writes
\* every index of Out in 0..NumSamples/2 (NumSamples/2 + 1 values).
C4_WritesHalfPlusOne ==
    (op = "PowerSpectrum" /\ args.NumSamples >= 4 /\ IsTwoToTheK(args.NumSamples)) =>
        \A i \in 0..(args.NumSamples \div 2) : i \in res.wrote

\* C4 as amended: for every power-of-two NumSamples >= 4, PowerSpectrum writes
\* exactly the indices 0..NumSamples/2-1 of Out (NumSamples/2 values), and
\* leaves Out[NumSamples/2] as it found it.
C4_WritesHalf ==
    (op = "PowerSpectrum" /\ args.NumSamples >= 4 /\ IsTwoToTheK(args.NumSamples)) =>
        /\ ~res.fatal
        /\ res.wrote = 0..(args.NumSamples \div 2 - 1)
        /\ \A i \in res.wrote : res.Out[i] # Uninit
        /\ res.Out[args.NumSamples \div 2] = Uninit

C4_Witness ==
    /\ op = "PowerSpectrum" /\ args.NumSamples = 16 /\ ~res.fatal
    /\ res.wrote = 0..7 /\ res.Out[8] = Uninit

\* C5: for alg = 3 and any input that passes the validation, every returned
\* value mProcessed[i], 0 <= i < windowSize/2, is >= 0 after the final clip,
\* and the peak pruning reads out[] only at indices in 0..windowSize/2-1.
C5_EnhancedNonNegative ==
    (Analysed /\ Validated /\ args.alg = 3 /\ ~res.fatal) =>
        /\ \A i \in 0..(args.windowSize \div 2 - 1) :
              res.mProcessed[i] \in {Zero, Pos, PosInf}
        /\ res.outReads \subseteq 0..(args.windowSize \div 2 - 1)

\* C6: for alg = 0 the decibel conversion is never applied to an accumulated
\* bin of 0: a block of zeros (windowSize = 64, 64 zero samples) gives a curve
\* of length windowSize/2 of finite negative values, not -Inf or NaN.
C6_LogOfZeroGuarded ==
    (Analysed /\ Validated /\ args.alg = 0 /\ ~res.fatal
       /\ \A i \in DOMAIN args.mData : args.mData[i] = Zero) =>
        /\ res.ret = args.windowSize \div 2
        /\ \A i \in 0..(res.ret - 1) : res.mProcessed[i] = Neg

\* the b-bit reversal of i, bit by bit
MirrorBits(i, b) ==
    LET bit(k) == (i \div (2 ^ k)) % 2
        term[k \in 0..b] == IF k = b THEN 0 ELSE bit(k) * 2 ^ (b - 1 - k) + term[k + 1]
    IN term[0]

\* C7: under any sequence of calls, one after the other, of FFT, RealFFT,
\* PowerSpectrum and analysefrequencies, InitFFT runs at most once, and the
\* cache, once built, holds for each width b exactly 2^b entries, entry i the
\* b-bit reversal of i, in every later state: FastReverseBits(i, b) =
\* ReverseBits(i, b) for all cached b and 0 <= i < 2^b.
C7_CacheBuiltOnce ==
    /\ initCount <= 1
    /\ (gFFTBitTable = NULL) <=> (initCount = 0)
    /\ gFFTBitTable # NULL =>
          /\ DOMAIN gFFTBitTable = 1..MaxFastBits
          /\ \A b \in 1..MaxFastBits :
                /\ Len(gFFTBitTable[b]) = 2 ^ b
                /\ \A i \in 0..(2 ^ b - 1) :
                      /\ gFFTBitTable[b][i + 1] = MirrorBits(i, b)
                      /\ FastReverseBits(gFFTBitTable, i, b) = ReverseBits(i, b)

\* a transform that found the cache built by an earlier call
C7_Witness ==
    /\ op \in {"FFT", "RealFFT", "PowerSpectrum", "analysefrequencies"}
    /\ ~res.fatal /\ res.inits = 0 /\ initCount = 1
    /\ gFFTBitTable = InitFFT
    /\ (op = "analysefrequencies" => res.ret > 0)

\* C9: for parameters that pass the validation the block loop ends after
\* exactly floor((mDataLen - windowSize) / (windowSize/2)) + 1 passes, block k
\* starting at k * (windowSize/2); every sample index read is in 0..mDataLen-1
\* and the number of blocks is >= 1.
C9_BlockCount ==
    (Analysed /\ Validated) =>
        /\ res.windows = (args.mDataLen - args.windowSize) \div (args.windowSize \div 2) + 1
        /\ res.windows >= 1
        /\ res.reads \subseteq 0..(args.mDataLen - 1)
        /\ res.reads = 0..((res.windows - 1) * (args.windowSize \div 2) + args.windowSize - 1)

\* C10: a successful call writes only mProcessed[0..windowSize/2-1] and leaves
\* every element at an index >= windowSize/2 unchanged; a call that fails the
\* validation writes no element of mProcessed.
C10_WritesOnlyCurve ==
    Analysed =>
        /\ res.ret > 0 =>
              /\ res.written \subseteq 0..(args.windowSize \div 2 - 1)
              /\ \A i \in DOMAIN res.mProcessed :
                    i >= args.windowSize \div 2 => res.mProcessed[i] = args.mProcessed[i]
        /\ ~Validated => (res.written = {} /\ res.mProcessed = args.mProcessed)

====
